---------------------------- MODULE Spec2Model ----------------------------
(***************************************************************************)
(* Model of src/main.py: the M/M/c queue class MMcQueue, the function      *)
(* queue_outputs, the three descriptive passes (current, max and test      *)
(* capacity) and the three SLA searches (flag 0, 1, 2) of the script.      *)
(*                                                                         *)
(* Numbers.  The script computes in binary floating point.  The model      *)
(* computes the same expressions, in the same order, in exact rational     *)
(* arithmetic: a number is a pair <<n, d>> in lowest terms with d > 0.     *)
(* math.exp has no rational value; it is modelled by the rational          *)
(* function ExpR below, which is exact at 0, positive, increasing, and     *)
(* satisfies ExpR(-x) = 1 / ExpR(x).                                       *)
(* Of the floating-point outcomes that are not numbers the model has one:  *)
(* the nan the constructor of MMcQueue yields once its powerTerm has       *)
(* overflowed (NaN, FilaNaN), at capacities above those it computes.       *)
(***************************************************************************)
EXTENDS Integers, Sequences, FiniteSets, TLC

(***************************************************************************)
(* Bounds of the model.                                                    *)
(***************************************************************************)
\* DEMANDA ranges over 1 .. MaxDemanda customers per hour.
MaxDemanda == 3
\* The PDV columns range over 0 .. MaxPdv (1 .. MaxPdv once pass 1 is over).
MaxPdv == 3
\* The increase phase of a search is followed up to this capacity.
MaxCap == 6
\* Sheets of the batch specifications have up to MaxRows rows.
MaxRows == 2

(***************************************************************************)
(* Rational arithmetic.                                                    *)
(***************************************************************************)
AbsI(n) == IF n < 0 THEN -n ELSE n

RECURSIVE GCD(_, _)
GCD(a, b) == IF b = 0 THEN a ELSE GCD(b, a % b)

\* The pair n/d in lowest terms with a positive denominator (d # 0).
Rat(n, d) ==
    LET g == GCD(AbsI(n), AbsI(d))
        s == IF d < 0 THEN -1 ELSE 1
    IN  <<(s * n) \div g, (s * d) \div g>>

RInt(n) == <<n, 1>>
RZero == <<0, 1>>
ROne == <<1, 1>>

RAdd(x, y) ==
    LET g == GCD(x[2], y[2])
    IN  Rat(x[1] * (y[2] \div g) + y[1] * (x[2] \div g), (x[2] \div g) * y[2])

RNeg(x) == <<-x[1], x[2]>>

RSub(x, y) == RAdd(x, RNeg(y))

RMul(x, y) ==
    LET g1 == GCD(AbsI(x[1]), y[2])
        g2 == GCD(AbsI(y[1]), x[2])
    IN  Rat((x[1] \div g1) * (y[1] \div g2), (x[2] \div g2) * (y[2] \div g1))

\* x / y for y # 0; Python raises ZeroDivisionError when y = 0, which the
\* actions test before they divide.
RDiv(x, y) == RMul(x, Rat(y[2], y[1]))

RLeq(x, y) ==
    LET g == GCD(x[2], y[2])
    IN  x[1] * (y[2] \div g) <= y[1] * (x[2] \div g)

RLt(x, y) == RLeq(x, y) /\ x # y

RAbs(x) == <<AbsI(x[1]), x[2]>>

\* math.exp, modelled: 1 + x for x >= 0 and 1 / (1 - x) for x < 0.
ExpR(x) == IF x[1] >= 0 THEN RAdd(ROne, x) ELSE RDiv(ROne, RSub(ROne, x))

(***************************************************************************)
(* class MMcQueue.                                                         *)
(***************************************************************************)
\* The test of __init__ that raises ValueError.
Unstable(arrival, departure, capacity) ==
    RLeq(RMul(RInt(capacity), departure), arrival)

\* The loop of __init__ after i iterations: powerTerm, factorTerm, preSum.
RECURSIVE Serie(_, _, _)
Serie(arrival, departure, i) ==
    IF i = 0
    THEN [powerTerm |-> ROne, factorTerm |-> ROne, preSum |-> ROne]
    ELSE LET s == Serie(arrival, departure, i - 1)
             powerTerm == RMul(s.powerTerm, RDiv(arrival, departure))
             factorTerm == RDiv(s.factorTerm, RInt(i))
         IN  [powerTerm |-> powerTerm, factorTerm |-> factorTerm,
              preSum |-> RAdd(s.preSum, RMul(powerTerm, factorTerm))]

\* The object __init__ builds when it does not raise (capacity >= 1).
MMcQueue(arrival, departure, capacity) ==
    LET rou == RDiv(RDiv(arrival, departure), RInt(capacity))
        s == Serie(arrival, departure, capacity)
        finalTerm == RMul(s.powerTerm, s.factorTerm)
        preSum == RSub(s.preSum, finalTerm)
        p0 == RDiv(ROne, RAdd(preSum, RDiv(finalTerm, RSub(ROne, rou))))
    IN  [_arrival |-> arrival, _departure |-> departure, _capacity |-> capacity,
         _rou |-> rou, _finalTerm |-> finalTerm, _p0 |-> p0,
         _pc |-> RMul(finalTerm, p0), _probSum |-> RMul(preSum, p0)]

getQueueProbSoPc(self) == self._pc

getQueueProb(self) == RSub(ROne, self._probSum)

getAvgPackets(self) ==
    RAdd(RMul(RDiv(self._rou, RSub(ROne, self._rou)), getQueueProb(self)),
         RMul(RInt(self._capacity), self._rou))

getAvgQueueTime(self) ==
    RDiv(getQueueProb(self),
         RSub(RMul(RInt(self._capacity), self._departure), self._arrival))

getAvgQueuePacket_Given(self) ==
    RDiv(RDiv(RMul(self._finalTerm, self._p0), RSub(ROne, self._rou)),
         RSub(ROne, self._rou))

getAvgQueueTime_Given(self) ==
    IF getQueueProb(self) = RZero
    THEN RZero
    ELSE RDiv(getAvgQueuePacket_Given(self),
              RMul(getQueueProb(self), self._arrival))

RECURSIVE factorial(_)
factorial(n) == IF n = 0 THEN 1 ELSE n * factorial(n - 1)

\* math.pow(x, n) for an integer n >= 0.
RECURSIVE pow(_, _)
pow(x, n) == IF n = 0 THEN ROne ELSE RMul(x, pow(x, n - 1))

getPk(self, k) ==
    IF k = 0 THEN self._p0
    ELSE IF k = self._capacity THEN self._pc
    ELSE IF k < self._capacity
    THEN LET factorTerm == RDiv(ROne, RInt(factorial(k)))
             powerTerm == pow(RDiv(self._arrival, self._departure), k)
         IN  RMul(RMul(self._p0, factorTerm), powerTerm)
    ELSE RMul(RMul(self._finalTerm, pow(self._rou, k - self._capacity)),
              self._p0)

getAvgResponseTime(self) ==
    RAdd(getAvgQueueTime(self), RDiv(ROne, self._departure))

getAvgPacketInSystem(self) == RMul(getAvgResponseTime(self), self._arrival)

getPorbWhenQueueTimeLargerThan(self, queueTime) ==
    LET firstTerm == RDiv(self._pc, RSub(ROne, self._rou))
        expTerm == RMul(RMul(RMul(RNeg(RInt(self._capacity)), self._departure),
                             RSub(ROne, self._rou)), queueTime)
        secondTerm == ExpR(expTerm)
    IN  RMul(firstTerm, secondTerm)

(***************************************************************************)
(* queue_outputs.  `capacity` is the module-level variable the function    *)
(* reads; the parameters SLA_TEMPO_MEDIO and CLIENTE_PDV are never read.   *)
(* The two lists of the result (occupancy and fixed-horizon tails) are     *)
(* left out of the model.                                                  *)
(***************************************************************************)
queue_outputs(Fila, sla_tempo_max, cap) ==
    LET tamanho == getAvgPackets(Fila)
        tamanho_asterisco == getAvgQueuePacket_Given(Fila)
    IN  [tempo_medio |-> getAvgQueueTime(Fila),
         tempo_medio_asterisco |-> getAvgQueueTime_Given(Fila),
         prob_pessoas_MED |->
             RSub(ROne, getPorbWhenQueueTimeLargerThan(Fila, getAvgQueueTime(Fila))),
         prob_pessoas_MAX |->
             RSub(ROne, getPorbWhenQueueTimeLargerThan(Fila, sla_tempo_max)),
         tamanho |-> tamanho,
         tamanho_por_pdv |-> RDiv(tamanho, RInt(cap)),
         tamanho_asterisco |-> tamanho_asterisco,
         tamanho_asterisco_pdv |-> RDiv(tamanho_asterisco, RInt(cap))]

(***************************************************************************)
(* The script.  State: the sheet and the radio button, the position in     *)
(* the script (block, statement, row), the module-level variables of the   *)
(* row being processed, the lists of the current block and the tables of   *)
(* the blocks already finished.                                            *)
(***************************************************************************)
VARIABLES
    planilha,         \* Input_Simulador_Filas: the rows of the sheet
    flag,             \* 0, 1 or 2, from the SLA radio button
    bloco,            \* "atual", "max", "teste", "otim" or "fim"
    pc,               \* "ler", "estab", "fila", "aumenta", "diminui",
                      \* "compara" or "erro"
    i,                \* the row index of the block's for loop (from 1)
    erro,             \* the exception that ended the run, or "nenhum"
    arrival_rate, departure_rate, capacity, capacity_antiga,
    SLA_TEMPO_MEDIO, SLA_TEMPO_MAX, SLA_PER,
    fila, metrica, metrica_2, resultado, resultado_2,
    CAPACITY, MUDANCA,
    saida,            \* the metric lists of the block, one record per row
    dict_1, dict_2, dict_3, dict_4

vars == <<planilha, flag, bloco, pc, i, erro, arrival_rate, departure_rate,
          capacity, capacity_antiga, SLA_TEMPO_MEDIO, SLA_TEMPO_MAX, SLA_PER,
          fila, metrica, metrica_2, resultado, resultado_2, CAPACITY, MUDANCA,
          saida, dict_1, dict_2, dict_3, dict_4>>

entrada == <<planilha, flag>>
linha == <<arrival_rate, departure_rate, capacity_antiga, SLA_TEMPO_MEDIO,
           SLA_TEMPO_MAX, SLA_PER>>
busca == <<fila, metrica, metrica_2, resultado, resultado_2>>
listas == <<CAPACITY, MUDANCA, saida>>
tabelas == <<dict_1, dict_2, dict_3, dict_4>>

\* A name that is not bound yet: a number, an object or tuple.
NoNum == <<>>
NoObj == [unbound |-> TRUE]

SegundosPorHora == 3600

(***************************************************************************)
(* The sheets the model reads.                                             *)
(***************************************************************************)
TMAs == {1800, 3600}
SLA_TEMPOs == {0, 600, 1800, 3600, 4560, 7200}
SLA_PERs == {<<1, 2>>, <<9, 10>>, <<1, 1>>}
SLA_TEMPO_MAXs == {0, 360}

Row(d, t, pa, pm, pt, st, sp, sm) ==
    [DEMANDA |-> d, TMA |-> t, PDV_ATUAIS |-> pa, PDV_MAX |-> pm,
     PDV_TESTE |-> pt, SLA_TEMPO |-> st, SLA_PER_ |-> sp, SLA_TEMPO_MAX_ |-> sm]

\* Rows that vary the three capacity columns, 0 included.
RowsPdv ==
    {Row(d, t, pa, pm, pt, 1800, <<9, 10>>, sm) :
        d \in 1..MaxDemanda, t \in TMAs, pa \in 0..MaxPdv, pm \in 0..MaxPdv,
        pt \in 0..MaxPdv, sm \in {360}}

\* Rows that vary the SLA columns, with one positive capacity in all three
\* capacity columns.
RowsSla ==
    {Row(d, t, p, p, p, st, sp, sm) :
        d \in 1..MaxDemanda, t \in TMAs, p \in 1..MaxPdv, st \in SLA_TEMPOs,
        sp \in SLA_PERs, sm \in SLA_TEMPO_MAXs}

\* A row whose SLA no capacity meets, whatever the flag: a negative
\* mean-wait threshold and a target percentage above 1.
RowSemSolucao == Row(MaxDemanda, 1800, MaxPdv, MaxPdv, MaxPdv, -600, <<3, 2>>, 0)

\* Rows of the sheets with more than one row.
RowsBatch ==
    {Row(d, 1800, p, p, p, st, <<9, 10>>, 0) :
        d \in {1, MaxDemanda}, p \in {0, 1, MaxPdv}, st \in {600}}
        \cup {RowSemSolucao}

RECURSIVE SeqsOf(_, _)
SeqsOf(S, n) ==
    IF n = 0 THEN {<<>>}
    ELSE {Append(q, r) : q \in SeqsOf(S, n - 1), r \in S}

Sheets ==
    {<<r>> : r \in RowsPdv \cup RowsSla}
        \cup UNION {SeqsOf(RowsBatch, n) : n \in 2..MaxRows}

\* The state before the first row of pass 1, whatever the sheet and the SLA
\* choice.
Inicio ==
    /\ bloco = "atual"
    /\ pc = "ler"
    /\ i = 1
    /\ erro = "nenhum"
    /\ arrival_rate = NoNum /\ departure_rate = NoNum
    /\ capacity = NoNum /\ capacity_antiga = NoNum
    /\ SLA_TEMPO_MEDIO = NoNum /\ SLA_TEMPO_MAX = NoNum /\ SLA_PER = NoNum
    /\ fila = NoObj /\ resultado = NoObj /\ resultado_2 = NoObj
    /\ metrica = NoNum /\ metrica_2 = NoNum
    /\ CAPACITY = <<>> /\ MUDANCA = <<>> /\ saida = <<>>
    /\ dict_1 = NoObj /\ dict_2 = NoObj /\ dict_3 = NoObj /\ dict_4 = NoObj

Init ==
    /\ planilha \in Sheets
    /\ flag \in {0, 1, 2}
    /\ Inicio

Descritivo == {"atual", "max", "teste"}

\* The capacity column a block starts each row from.
PdvInicial(b, r) ==
    CASE b = "atual" -> r.PDV_ATUAIS
      [] b = "max" -> r.PDV_MAX
      [] b = "teste" -> r.PDV_TESTE
      [] b = "otim" -> r.PDV_ATUAIS

\* The first statements of a row: the parameters and the SLA of the row.
\* The optimisation blocks divide the two SLA times by 3600, the
\* descriptive blocks do not.
Ler ==
    /\ pc = "ler" /\ bloco # "fim" /\ i <= Len(planilha)
    /\ LET r == planilha[i] IN
        /\ arrival_rate' = RInt(r.DEMANDA)
        /\ departure_rate' =
               RDiv(ROne, RDiv(RInt(r.TMA), RInt(SegundosPorHora)))
        /\ capacity' = PdvInicial(bloco, r)
        /\ capacity_antiga' = PdvInicial(bloco, r)
        /\ SLA_TEMPO_MEDIO' =
               IF bloco = "otim"
               THEN RDiv(RInt(r.SLA_TEMPO), RInt(SegundosPorHora))
               ELSE RInt(r.SLA_TEMPO)
        /\ SLA_TEMPO_MAX' =
               IF bloco = "otim"
               THEN RDiv(RInt(r.SLA_TEMPO_MAX_), RInt(SegundosPorHora))
               ELSE RInt(r.SLA_TEMPO_MAX_)
        /\ SLA_PER' = r.SLA_PER_
    /\ pc' = "estab"
    /\ UNCHANGED <<entrada, bloco, i, erro, busca, listas, tabelas>>

SaturadoEstrito(arrival, departure, c) ==
    RLt(ROne, RDiv(arrival, RMul(departure, RInt(c))))

\* The test of the stabilization loop and of the guard of the decrease
\* phase, arrival_rate / (departure_rate * c) >= 1, for a c at which the
\* division is defined.
Saturado(arrival, departure, c) ==
    RLeq(ROne, RDiv(arrival, RMul(departure, RInt(c))))

\* That division by zero: departure_rate * c is 0.
DivisaoPorZero(departure, c) == RMul(departure, RInt(c)) = RZero

\* One iteration of `while arrival_rate / (departure_rate * capacity) >= 1`.
Estabiliza ==
    /\ pc = "estab"
    /\ ~DivisaoPorZero(departure_rate, capacity)
    /\ Saturado(arrival_rate, departure_rate, capacity)
    /\ capacity' = capacity + 1
    /\ UNCHANGED <<entrada, bloco, pc, i, erro, linha, busca, listas, tabelas>>

\* The test of that loop raises ZeroDivisionError.
EstabilizaErro ==
    /\ pc = "estab"
    /\ DivisaoPorZero(departure_rate, capacity)
    /\ pc' = "erro"
    /\ erro' = "ZeroDivisionError"
    /\ UNCHANGED <<entrada, bloco, i, capacity, linha, busca, listas, tabelas>>

\* The loop ends.
EstabilizaFim ==
    /\ pc = "estab"
    /\ ~DivisaoPorZero(departure_rate, capacity)
    /\ ~Saturado(arrival_rate, departure_rate, capacity)
    /\ pc' = "fila"
    /\ UNCHANGED <<entrada, bloco, i, erro, capacity, linha, busca, listas, tabelas>>

\* The values a block appends to its metric lists for one row.
LinhaSaida(b, f, res) ==
    LET escala == IF b = "atual" \/ (b = "otim" /\ f = 2)
                  THEN ROne ELSE RInt(SegundosPorHora)
    IN  [Tempo_Medio |-> RMul(res.tempo_medio, escala),
         Tempo_Medio_asterisco |->
             IF b = "atual" THEN res.tempo_medio
             ELSE RMul(res.tempo_medio_asterisco, escala),
         PROB_Tempo_Medio |-> res.prob_pessoas_MED,
         PROB_Tempo_MAX |-> res.prob_pessoas_MAX,
         TAMANHO_MEDIO |-> res.tamanho,
         TAMANHO_POR_PDV |-> res.tamanho_por_pdv,
         TAMANHO_ASTERISCO |-> res.tamanho_por_pdv,
         TAMANHO_ASTERISCO_PDV |-> res.tamanho_asterisco_pdv]

MudancaTrocada(c, antiga) == IF c # antiga THEN "ESTAVEL" ELSE "INSTAVEL"

\* The stability flag of a row ("INST\'AVEL" / "EST\'AVEL" in the script).
Mudanca(c, antiga) == IF c # antiga THEN "INSTAVEL" ELSE "ESTAVEL"

\* The rest of a row of a descriptive block: the queue, its outputs, the
\* appends.
DescFila ==
    /\ pc = "fila" /\ bloco \in Descritivo
    /\ IF Unstable(arrival_rate, departure_rate, capacity)
       THEN /\ pc' = "erro" /\ erro' = "ValueError"
            /\ UNCHANGED <<i, fila, listas>>
       ELSE LET q == MMcQueue(arrival_rate, departure_rate, capacity)
                res == queue_outputs(q, SLA_TEMPO_MAX, capacity)
            IN  /\ fila' = q
                /\ saida' = Append(saida, LinhaSaida(bloco, flag, res))
                /\ MUDANCA' = Append(MUDANCA, Mudanca(capacity, capacity_antiga))
                /\ CAPACITY' = Append(CAPACITY, capacity)
                /\ i' = i + 1
                /\ pc' = "ler"
                /\ erro' = erro
    /\ UNCHANGED <<entrada, bloco, capacity, linha, metrica, metrica_2,
                   resultado, resultado_2, tabelas>>

\* The for loop of a block is over: its table is built and the lists of the
\* next block start empty.
FimBloco ==
    /\ pc = "ler" /\ bloco # "fim" /\ i > Len(planilha)
    /\ LET t == [CAPACITY |-> CAPACITY, MUDANCA |-> MUDANCA, saida |-> saida]
       IN  /\ dict_1' = IF bloco = "atual" THEN t ELSE dict_1
           /\ dict_2' = IF bloco = "max" THEN t ELSE dict_2
           /\ dict_3' = IF bloco = "teste" THEN t ELSE dict_3
           /\ dict_4' = IF bloco = "otim" THEN t ELSE dict_4
    /\ bloco' = CASE bloco = "atual" -> "max"
                  [] bloco = "max" -> "teste"
                  [] bloco = "teste" -> "otim"
                  [] bloco = "otim" -> "fim"
    /\ IF bloco = "otim"
       THEN UNCHANGED <<i, listas>>
       ELSE i' = 1 /\ CAPACITY' = <<>> /\ MUDANCA' = <<>> /\ saida' = <<>>
    /\ UNCHANGED <<entrada, pc, erro, capacity, linha, busca>>

(***************************************************************************)
(* The optimisation block: flag 0 searches on the average wait, flag 1 on  *)
(* the average wait given that the customer waits, flag 2 on the share of  *)
(* customers served within SLA_TEMPO_MAX.                                  *)
(***************************************************************************)
\* The element of queue_outputs each search takes as its first metrica.
MetricaInicial(f, res) ==
    CASE f = 0 -> res.tempo_medio
      [] f = 1 -> res.tempo_medio_asterisco
      [] f = 2 -> res.prob_pessoas_MAX

\* The element the decrease phase takes as metrica: resultado[0] under
\* flag 0, resultado[1] under flags 1 and 2.
MetricaDiminui(f, res) ==
    CASE f = 0 -> res.tempo_medio
      [] f = 1 -> res.tempo_medio_asterisco
      [] f = 2 -> res.tempo_medio_asterisco

TesteAumentaInvertido(f, m, sla_tempo_medio, sla_per) ==
    IF f = 2 THEN RLt(m, sla_per) ELSE RLt(m, sla_tempo_medio)

\* The test of the increase loop.
TesteAumenta(f, m, sla_tempo_medio, sla_per) ==
    IF f = 2 THEN RLt(m, sla_per) ELSE RLt(sla_tempo_medio, m)

\* The test of the decrease loop.
TesteDiminui(f, m, sla_tempo_medio, sla_per) ==
    IF f = 2 THEN RLeq(sla_per, m) ELSE RLeq(m, sla_tempo_medio)

\* The queue at the stabilized capacity, the first metrica and resultado.
OtimFila ==
    /\ pc = "fila" /\ bloco = "otim"
    /\ IF Unstable(arrival_rate, departure_rate, capacity)
       THEN /\ pc' = "erro" /\ erro' = "ValueError"
            /\ UNCHANGED <<fila, metrica, resultado>>
       ELSE LET q == MMcQueue(arrival_rate, departure_rate, capacity)
                res == queue_outputs(q, SLA_TEMPO_MAX, capacity)
            IN  /\ fila' = q
                /\ metrica' = MetricaInicial(flag, res)
                /\ resultado' = res
                /\ pc' = "aumenta"
                /\ erro' = erro
    /\ UNCHANGED <<entrada, bloco, i, capacity, linha, metrica_2, resultado_2,
                   listas, tabelas>>

\* One iteration of the increase loop.
OtimAumenta ==
    /\ pc = "aumenta"
    /\ TesteAumenta(flag, metrica, SLA_TEMPO_MEDIO, SLA_PER)
    /\ capacity < MaxCap
    /\ capacity' = capacity + 1
    /\ IF Unstable(arrival_rate, departure_rate, capacity + 1)
       THEN /\ pc' = "erro" /\ erro' = "ValueError"
            /\ UNCHANGED <<fila, metrica, resultado>>
       ELSE LET q == MMcQueue(arrival_rate, departure_rate, capacity + 1)
                res == queue_outputs(q, SLA_TEMPO_MAX, capacity + 1)
            IN  /\ fila' = q
                /\ metrica' = MetricaInicial(flag, res)
                /\ resultado' = res
                /\ UNCHANGED <<pc, erro>>
    /\ UNCHANGED <<entrada, bloco, i, linha, metrica_2, resultado_2, listas,
                   tabelas>>

\* The float nan: every comparison with it is false.
NaN == <<0, 0>>

\* The queue whose fields are all nan.
FilaNaN == [nan |-> TRUE]

\* No capacity passes the test of the increase loop: the mean waits are
\* never negative, the percentage served never exceeds 1.
SemSolucao(f, sla_tempo_medio, sla_per) ==
    IF f = 2 THEN RLt(ROne, sla_per) ELSE RLt(sla_tempo_medio, RZero)

\* powerTerm of the constructor grows without bound with the capacity
\* (arrival / departure > 1) and overflows to inf, while factorTerm has
\* underflowed to 0: their product is nan.
Estouro(arrival, departure) == RLt(departure, arrival)

\* The rest of an increase loop that no capacity ends, from the capacity
\* up to which the model follows it: the loop goes on until the constructor
\* yields nan in every field of the queue (capacity 1751 for
\* arrival / departure = 1.5), metrica is nan, and the tests of both loops
\* are false.  The capacity after MaxCap stands for that capacity.
OtimAumentaNaN ==
    /\ pc = "aumenta"
    /\ TesteAumenta(flag, metrica, SLA_TEMPO_MEDIO, SLA_PER)
    /\ capacity = MaxCap
    /\ SemSolucao(flag, SLA_TEMPO_MEDIO, SLA_PER)
    /\ Estouro(arrival_rate, departure_rate)
    /\ capacity' = capacity + 1
    /\ fila' = FilaNaN
    /\ metrica' = NaN
    /\ resultado' = FilaNaN
    /\ pc' = "compara"
    /\ UNCHANGED <<entrada, bloco, i, erro, linha, metrica_2, resultado_2,
                   listas, tabelas>>

\* The increase loop ends.
OtimAumentaFim ==
    /\ pc = "aumenta"
    /\ ~TesteAumenta(flag, metrica, SLA_TEMPO_MEDIO, SLA_PER)
    /\ pc' = "diminui"
    /\ UNCHANGED <<entrada, bloco, i, erro, capacity, linha, busca, listas,
                   tabelas>>

\* The guard of the decrease loop at the trial capacity c.
Guarda(arrival, departure, c) == Saturado(arrival, departure, c)

ReporEsquecido(c) == c

\* `capacity = capacity + 1` before the break: the trial capacity c is undone.
Repor(c) == c + 1

OtimDiminuiDepois ==
    /\ pc = "diminui"
    /\ TesteDiminui(flag, metrica, SLA_TEMPO_MEDIO, SLA_PER)
    /\ ~DivisaoPorZero(departure_rate, capacity - 1)
    /\ ~Guarda(arrival_rate, departure_rate, capacity - 1)
    /\ metrica_2' = metrica
    /\ resultado_2' = queue_outputs(fila, SLA_TEMPO_MAX, capacity - 1)
    /\ capacity' = capacity - 1
    /\ IF Unstable(arrival_rate, departure_rate, capacity - 1)
       THEN /\ pc' = "erro" /\ erro' = "ValueError"
            /\ UNCHANGED <<fila, metrica, resultado>>
       ELSE LET q == MMcQueue(arrival_rate, departure_rate, capacity - 1)
                res == queue_outputs(q, SLA_TEMPO_MAX, capacity - 1)
            IN  /\ fila' = q
                /\ resultado' = res
                /\ metrica' = MetricaDiminui(flag, res)
                /\ UNCHANGED <<pc, erro>>
    /\ UNCHANGED <<entrada, bloco, i, linha, listas, tabelas>>

\* One iteration of the decrease loop that reaches its end: the trial
\* capacity passes the guard and becomes the current one.
OtimDiminui ==
    /\ pc = "diminui"
    /\ TesteDiminui(flag, metrica, SLA_TEMPO_MEDIO, SLA_PER)
    /\ ~DivisaoPorZero(departure_rate, capacity - 1)
    /\ ~Guarda(arrival_rate, departure_rate, capacity - 1)
    /\ metrica_2' = metrica
    /\ resultado_2' = queue_outputs(fila, SLA_TEMPO_MAX, capacity)
    /\ capacity' = capacity - 1
    /\ IF Unstable(arrival_rate, departure_rate, capacity - 1)
       THEN /\ pc' = "erro" /\ erro' = "ValueError"
            /\ UNCHANGED <<fila, metrica, resultado>>
       ELSE LET q == MMcQueue(arrival_rate, departure_rate, capacity - 1)
                res == queue_outputs(q, SLA_TEMPO_MAX, capacity - 1)
            IN  /\ fila' = q
                /\ resultado' = res
                /\ metrica' = MetricaDiminui(flag, res)
                /\ UNCHANGED <<pc, erro>>
    /\ UNCHANGED <<entrada, bloco, i, linha, listas, tabelas>>

\* The iteration that the guard ends: capacity is put back and the loop is
\* left by break.
OtimDiminuiGuarda ==
    /\ pc = "diminui"
    /\ TesteDiminui(flag, metrica, SLA_TEMPO_MEDIO, SLA_PER)
    /\ ~DivisaoPorZero(departure_rate, capacity - 1)
    /\ Guarda(arrival_rate, departure_rate, capacity - 1)
    /\ metrica_2' = metrica
    /\ resultado_2' = queue_outputs(fila, SLA_TEMPO_MAX, capacity)
    /\ capacity' = Repor(capacity - 1)
    /\ pc' = "compara"
    /\ UNCHANGED <<entrada, bloco, i, erro, linha, fila, metrica, resultado,
                   listas, tabelas>>

\* The iteration in which the guard itself raises ZeroDivisionError: the
\* trial capacity is 0.
OtimDiminuiErro ==
    /\ pc = "diminui"
    /\ TesteDiminui(flag, metrica, SLA_TEMPO_MEDIO, SLA_PER)
    /\ DivisaoPorZero(departure_rate, capacity - 1)
    /\ metrica_2' = metrica
    /\ resultado_2' = queue_outputs(fila, SLA_TEMPO_MAX, capacity)
    /\ capacity' = capacity - 1
    /\ pc' = "erro"
    /\ erro' = "ZeroDivisionError"
    /\ UNCHANGED <<entrada, bloco, i, linha, fila, metrica, resultado, listas,
                   tabelas>>

\* The decrease loop ends on its test.
OtimDiminuiFim ==
    /\ pc = "diminui"
    /\ ~TesteDiminui(flag, metrica, SLA_TEMPO_MEDIO, SLA_PER)
    /\ pc' = "compara"
    /\ UNCHANGED <<entrada, bloco, i, erro, capacity, linha, busca, listas,
                   tabelas>>

EscolhidoEstrito(m, m2, res, res2, sla_tempo_medio) ==
    IF RLt(RAbs(RSub(m, sla_tempo_medio)), RAbs(RSub(m2, sla_tempo_medio)))
    THEN res ELSE res2

\* The tuple the comparison of DIFF_1 and DIFF_2 unpacks.
Escolhido(m, m2, res, res2, sla_tempo_medio) ==
    LET DIFF_1 == RSub(m, sla_tempo_medio)
        DIFF_2 == RSub(m2, sla_tempo_medio)
    IN  IF RLeq(RAbs(DIFF_1), RAbs(DIFF_2)) THEN res ELSE res2

\* The comparison and the appends that end a row of the optimisation block.
OtimCompara ==
    /\ pc = "compara"
    /\ metrica # NaN
    /\ saida' = Append(saida, LinhaSaida(bloco, flag,
           Escolhido(metrica, metrica_2, resultado, resultado_2,
                     SLA_TEMPO_MEDIO)))
    /\ CAPACITY' = Append(CAPACITY, capacity)
    /\ i' = i + 1
    /\ pc' = "ler"
    /\ UNCHANGED <<entrada, bloco, erro, capacity, linha, busca, MUDANCA,
                   tabelas>>

\* The comparison when metrica is nan: DIFF_2 reads metrica_2, which is not
\* bound if no row before has run a decrease loop (NameError); otherwise
\* abs(DIFF_1) <= abs(DIFF_2) is false and resultado_2 is unpacked.
OtimComparaNaN ==
    /\ pc = "compara"
    /\ metrica = NaN
    /\ IF metrica_2 = NoNum
       THEN /\ pc' = "erro" /\ erro' = "NameError"
            /\ UNCHANGED <<i, listas>>
       ELSE /\ saida' = Append(saida, LinhaSaida(bloco, flag, resultado_2))
            /\ CAPACITY' = Append(CAPACITY, capacity)
            /\ i' = i + 1
            /\ pc' = "ler"
            /\ UNCHANGED <<erro, MUDANCA>>
    /\ UNCHANGED <<entrada, bloco, capacity, linha, busca, tabelas>>

Next ==
    \/ Ler
    \/ Estabiliza
    \/ EstabilizaErro
    \/ EstabilizaFim
    \/ DescFila
    \/ FimBloco
    \/ OtimFila
    \/ OtimAumenta
    \/ OtimAumentaNaN
    \/ OtimAumentaFim
    \/ OtimDiminui
    \/ OtimDiminuiGuarda
    \/ OtimDiminuiErro
    \/ OtimDiminuiFim
    \/ OtimCompara
    \/ OtimComparaNaN

Spec == Init /\ [][Next]_vars

(***************************************************************************)
(* The class on its own: one call of MMcQueue(arrival, departure,          *)
(* capacity) with the arguments drawn from bounded sets.  The capacities   *)
(* 0 .. MaxCap are computed; the capacity MaxCap + 1 stands for the        *)
(* capacities above them, among which, when arrival / departure > 1, are   *)
(* those where powerTerm has overflowed (Estouro) and the constructor      *)
(* returns an object whose fields are nan.                                 *)
(***************************************************************************)

\* Service times of the calls: those of the sheets, and shorter ones, with
\* which the calls go up to MaxPdv servers.
TMAsFila == TMAs \cup {600, 720, 900, 1200}

CapacidadesFila(t) == IF t \in TMAs THEN 0..(MaxCap + 1) ELSE 0..MaxPdv

InitFila ==
    /\ planilha = <<>>
    /\ flag = 0
    /\ bloco = "classe"
    /\ pc = "novo"
    /\ i = 1
    /\ erro = "nenhum"
    /\ arrival_rate \in {RInt(d) : d \in 1..(MaxDemanda + 1)}
    /\ \E t \in TMAsFila :
           /\ departure_rate = Rat(SegundosPorHora, t)
           /\ capacity \in CapacidadesFila(t)
    /\ capacity_antiga = NoNum
    /\ SLA_TEMPO_MEDIO = NoNum /\ SLA_TEMPO_MAX = NoNum /\ SLA_PER = NoNum
    /\ fila = NoObj /\ resultado = NoObj /\ resultado_2 = NoObj
    /\ metrica = NoNum /\ metrica_2 = NoNum
    /\ CAPACITY = <<>> /\ MUDANCA = <<>> /\ saida = <<>>
    /\ dict_1 = NoObj /\ dict_2 = NoObj /\ dict_3 = NoObj /\ dict_4 = NoObj

\* The capacity is one at which powerTerm has overflowed.
PowerTermInf(arrival, departure, c) ==
    c > MaxCap /\ Estouro(arrival, departure)

\* __init__ raises ValueError.
ConstruirErro ==
    /\ bloco = "classe" /\ pc = "novo"
    /\ Unstable(arrival_rate, departure_rate, capacity)
    /\ pc' = "erro"
    /\ erro' = "ValueError"
    /\ UNCHANGED <<entrada, bloco, i, capacity, linha, busca, listas, tabelas>>

\* __init__ returns the queue.
Construir ==
    /\ bloco = "classe" /\ pc = "novo"
    /\ ~Unstable(arrival_rate, departure_rate, capacity)
    /\ ~PowerTermInf(arrival_rate, departure_rate, capacity)
    /\ fila' = MMcQueue(arrival_rate, departure_rate, capacity)
    /\ pc' = "feito"
    /\ UNCHANGED <<entrada, bloco, i, erro, capacity, linha, metrica, metrica_2,
                   resultado, resultado_2, listas, tabelas>>

\* __init__ returns, and the fields it has computed are nan.
ConstruirNaN ==
    /\ bloco = "classe" /\ pc = "novo"
    /\ ~Unstable(arrival_rate, departure_rate, capacity)
    /\ PowerTermInf(arrival_rate, departure_rate, capacity)
    /\ fila' = FilaNaN
    /\ pc' = "feito"
    /\ UNCHANGED <<entrada, bloco, i, erro, capacity, linha, metrica, metrica_2,
                   resultado, resultado_2, listas, tabelas>>

\* The queueTime arguments of the calls, in hours, one of them negative.
QueueTimes == {Rat(t, SegundosPorHora) : t \in {-3600, 0, 360}}

\* A call fila.getPorbWhenQueueTimeLargerThan(queueTime) on the queue built:
\* the method has no test of its argument and returns a value for each.
\* SLA_TEMPO_MAX holds the argument, as in queue_outputs, and metrica the
\* value returned.
ChamarProb ==
    /\ bloco = "classe" /\ pc = "feito"
    /\ \E queueTime \in QueueTimes :
           /\ SLA_TEMPO_MAX' = queueTime
           /\ metrica' = IF fila = FilaNaN THEN NaN
                         ELSE getPorbWhenQueueTimeLargerThan(fila, queueTime)
    /\ pc' = "chamado"
    /\ UNCHANGED <<entrada, bloco, i, erro, arrival_rate, departure_rate,
                   capacity, capacity_antiga, SLA_TEMPO_MEDIO, SLA_PER, fila,
                   metrica_2, resultado, resultado_2, listas, tabelas>>

NextFila ==
    \/ ConstruirErro
    \/ Construir
    \/ ConstruirNaN
    \/ ChamarProb

SpecFila == InitFila /\ [][NextFila]_vars

(***************************************************************************)
(* Vocabulary of the properties.                                           *)
(***************************************************************************)
\* c * mu > lambda for the row r, with mu = 3600 / TMA, in integers.
Estavel(r, c) == c * SegundosPorHora > r.DEMANDA * r.TMA

Lambda(r) == RInt(r.DEMANDA)
Mu(r) == Rat(SegundosPorHora, r.TMA)
LimiarTempo(r) == Rat(r.SLA_TEMPO, SegundosPorHora)
LimiarTempoMax(r) == Rat(r.SLA_TEMPO_MAX_, SegundosPorHora)

\* The outputs of the queue of row r with c servers, as the searches see them.
SaidasEm(r, c) == queue_outputs(MMcQueue(Lambda(r), Mu(r), c), LimiarTempoMax(r), c)

\* The metric a search is about, for row r with c servers.
MetricaEm(f, r, c) == MetricaInicial(f, SaidasEm(r, c))

\* Row r with c servers meets the SLA of search f.
AtendeSLA(f, r, c) ==
    IF f = 2 THEN RLeq(r.SLA_PER_, MetricaEm(2, r, c))
    ELSE RLeq(MetricaEm(f, r, c), LimiarTempo(r))

\* The capacities and the metric rows the optimisation block has reported.
OtimCapacity ==
    CASE bloco = "otim" -> CAPACITY
      [] bloco = "fim" -> dict_4.CAPACITY
      [] OTHER -> <<>>

OtimSaida ==
    CASE bloco = "otim" -> saida
      [] bloco = "fim" -> dict_4.saida
      [] OTHER -> <<>>

\* The smallest stable capacity from c0 >= 1 on.
Estabilizado(r, c0) ==
    CHOOSE c \in c0..(c0 + r.DEMANDA * r.TMA) :
        Estavel(r, c) /\ \A d \in c0..(c - 1) : ~Estavel(r, d)

(***************************************************************************)
(* C1.  Every capacity c an SLA search reports for a row has c * mu >      *)
(* lambda, under each of the three flags.                                  *)
(***************************************************************************)
C1_ReportedStable ==
    \A k \in 1..Len(OtimCapacity) : Estavel(planilha[k], OtimCapacity[k])

\* A capacity is reported that sits on the stability floor, after the guard
\* of the decrease phase stopped the walk.
C1_Witness ==
    /\ bloco = "otim" /\ pc = "ler" /\ Len(CAPACITY) >= 1
    /\ CAPACITY[1] >= 2
    /\ ~Estavel(planilha[1], CAPACITY[1] - 1)
    /\ metrica = metrica_2

(***************************************************************************)
(* C2.  The capacity a search reports for a row meets the SLA of the       *)
(* search: the wait metric at that capacity is at most the threshold       *)
(* (flags 0 and 1), the share served within the maximum wait is at least   *)
(* the target (flag 2).                                                    *)
(***************************************************************************)
C2_ReportedMeetsSLA ==
    \A k \in 1..Len(OtimCapacity) :
        AtendeSLA(flag, planilha[k], OtimCapacity[k])

(***************************************************************************)
(* C3.  The metrics reported for a row of the optimisation block are those *)
(* of the queue with the reported number of servers.                       *)
(***************************************************************************)
C3_BundleOfReportedCapacity ==
    \A k \in 1..Len(OtimSaida) :
        OtimSaida[k] =
            LinhaSaida("otim", flag, SaidasEm(planilha[k], OtimCapacity[k]))

(***************************************************************************)
(* C4.  Flag 0, on a row whose stabilized starting capacity meets the      *)
(* threshold: the reported capacity is the smallest stable capacity whose  *)
(* average wait is at most the threshold.                                  *)
(***************************************************************************)
C4_SmallestMeeting ==
    \A k \in 1..Len(OtimCapacity) :
        LET r == planilha[k]
            c == OtimCapacity[k]
        IN  (flag = 0 /\ AtendeSLA(0, r, Estabilizado(r, r.PDV_ATUAIS)))
                => /\ Estavel(r, c)
                   /\ AtendeSLA(0, r, c)
                   /\ (~Estavel(r, c - 1) \/ ~AtendeSLA(0, r, c - 1))

(***************************************************************************)
(* C5.  Flags 0 and 1, when the decrease phase stops because the reported  *)
(* capacity c violates the threshold while c + 1 meets it: the metrics     *)
(* kept are those of the neighbour whose metric is closer to the           *)
(* threshold, and those of c when the two distances are equal.             *)
(***************************************************************************)
C5_CloserNeighbourKept ==
    \A k \in 1..Len(OtimSaida) :
        LET r == planilha[k]
            c == OtimCapacity[k]
            d1 == RAbs(RSub(MetricaEm(flag, r, c), LimiarTempo(r)))
            d2 == RAbs(RSub(MetricaEm(flag, r, c + 1), LimiarTempo(r)))
        IN  (flag \in {0, 1} /\ ~AtendeSLA(flag, r, c) /\ AtendeSLA(flag, r, c + 1))
                => /\ RLt(d1, d2) =>
                          OtimSaida[k] = LinhaSaida("otim", flag, SaidasEm(r, c))
                   /\ RLt(d2, d1) =>
                          OtimSaida[k] = LinhaSaida("otim", flag, SaidasEm(r, c + 1))
                   /\ d1 = d2 =>
                          OtimSaida[k] = LinhaSaida("otim", flag, SaidasEm(r, c))

\* A row is reported whose two neighbours are equally far from the threshold.
C5_Witness ==
    /\ bloco = "otim" /\ Len(CAPACITY) >= 1
    /\ flag \in {0, 1}
    /\ ~AtendeSLA(flag, planilha[1], CAPACITY[1])
    /\ RAbs(RSub(MetricaEm(flag, planilha[1], CAPACITY[1]), LimiarTempo(planilha[1])))
           = RAbs(RSub(MetricaEm(flag, planilha[1], CAPACITY[1] + 1),
                       LimiarTempo(planilha[1])))

(***************************************************************************)
(* C6.  In the decrease phase no queue is built at an unstable capacity    *)
(* and the search raises no error; when the trial capacity is unstable     *)
(* (c * mu <= lambda, c = 0 included) the phase ends at once with the      *)
(* capacity put back, and the two candidates compared afterwards are both  *)
(* those of that capacity.                                                 *)
(***************************************************************************)
C6_GuardEndsPhase ==
    bloco = "otim" =>
        /\ erro = "nenhum"
        /\ pc \in {"aumenta", "diminui", "compara"} =>
               /\ fila._capacity = capacity
               /\ Estavel(planilha[i], capacity)
        /\ (pc = "compara"
              /\ TesteDiminui(flag, metrica, SLA_TEMPO_MEDIO, SLA_PER)) =>
               /\ ~Estavel(planilha[i], capacity - 1)
               /\ metrica = metrica_2
               /\ resultado = SaidasEm(planilha[i], capacity)
               /\ resultado_2 = SaidasEm(planilha[i], capacity)

(***************************************************************************)
(* C7.  When the stabilization loop ends, capacity is the starting         *)
(* capacity c0 >= 1 if c0 * mu > lambda, and otherwise the smallest        *)
(* c > c0 with c * mu > lambda.                                            *)
(***************************************************************************)
C7_Stabilized ==
    pc = "fila" =>
        LET r == planilha[i]
            c0 == PdvInicial(bloco, r)
        IN  c0 >= 1 =>
                /\ Estavel(r, c0) => capacity = c0
                /\ ~Estavel(r, c0) =>
                       /\ capacity > c0
                       /\ Estavel(r, capacity)
                       /\ \A c \in c0..(capacity - 1) : ~Estavel(r, c)

\* The loop has raised the capacity by more than one.
C7_Witness ==
    /\ pc = "fila"
    /\ capacity >= PdvInicial(bloco, planilha[i]) + 2

(***************************************************************************)
(* C8.  In the descriptive passes, for a row with starting capacity        *)
(* c0 >= 0, the stabilization loop and the construction of the queue that  *)
(* follows it raise no error.                                              *)
(***************************************************************************)
C8_StabilizationNeverRaises ==
    bloco \in Descritivo => erro = "nenhum"

(***************************************************************************)
(* C9.  In each descriptive pass one flag is recorded per processed row,   *)
(* in row order; the flag of a row is "unstable" exactly when its starting *)
(* capacity c0 has c0 * mu <= lambda, which is exactly when the required   *)
(* capacity differs from c0.                                               *)
(***************************************************************************)
FlagsOf(b, t, n) ==
    /\ Len(t.MUDANCA) = n /\ Len(t.CAPACITY) = n
    /\ \A k \in 1..n :
        LET r == planilha[k]
            c0 == PdvInicial(b, r)
        IN  /\ t.MUDANCA[k] \in {"INSTAVEL", "ESTAVEL"}
            /\ t.MUDANCA[k] = "INSTAVEL" <=> ~Estavel(r, c0)
            /\ t.MUDANCA[k] = "INSTAVEL" <=> t.CAPACITY[k] # c0

C9_FlagPerRow ==
    /\ bloco \in Descritivo /\ pc # "erro" =>
           FlagsOf(bloco, [MUDANCA |-> MUDANCA, CAPACITY |-> CAPACITY], i - 1)
    /\ dict_1 # NoObj => FlagsOf("atual", dict_1, Len(planilha))
    /\ dict_2 # NoObj => FlagsOf("max", dict_2, Len(planilha))
    /\ dict_3 # NoObj => FlagsOf("teste", dict_3, Len(planilha))

\* A pass over two rows has flagged the first unstable and the second stable.
C9_Witness ==
    /\ dict_1 # NoObj
    /\ dict_1.MUDANCA = <<"INSTAVEL", "ESTAVEL">>

(***************************************************************************)
(* C10.  Flag 2: whenever the test of the increase loop or of the decrease *)
(* loop is about to be evaluated, metrica is the share of customers served *)
(* within SLA_TEMPO_MAX by the queue at the current capacity.              *)
(***************************************************************************)
C10_MetricaIsPercentage ==
    (bloco = "otim" /\ flag = 2 /\ pc \in {"aumenta", "diminui"}) =>
        metrica = SaidasEm(planilha[i], capacity).prob_pessoas_MAX

(***************************************************************************)
(* C11.  Flag 2, on a row reported at a capacity c that misses the target  *)
(* while c + 1 meets it: the metrics kept are those of the neighbour whose *)
(* share of customers served within SLA_TEMPO_MAX is closer to SLA_PER.    *)
(***************************************************************************)
C11_ChoiceByPercentage ==
    \A k \in 1..Len(OtimSaida) :
        LET r == planilha[k]
            c == OtimCapacity[k]
            d1 == RAbs(RSub(MetricaEm(2, r, c), r.SLA_PER_))
            d2 == RAbs(RSub(MetricaEm(2, r, c + 1), r.SLA_PER_))
        IN  (flag = 2 /\ ~AtendeSLA(2, r, c) /\ AtendeSLA(2, r, c + 1))
                => /\ RLt(d1, d2) =>
                          OtimSaida[k] = LinhaSaida("otim", 2, SaidasEm(r, c))
                   /\ RLt(d2, d1) =>
                          OtimSaida[k] = LinhaSaida("otim", 2, SaidasEm(r, c + 1))

\* The search of flag f is in the given loop of a row whose mean-wait
\* threshold is positive.
NaFase(f, fase) ==
    /\ bloco = "otim" /\ flag = f /\ pc = fase
    /\ RLt(RZero, SLA_TEMPO_MEDIO)

\* The average wait is below 1 / (c * mu - lambda): a capacity at which the
\* threshold is still exceeded has (c * mu - lambda) * threshold < 1, which
\* bounds the capacities the increase loop can visit.
AbaixoDoTeto(arrival, departure, c, sla_tempo_medio) ==
    RLt(RMul(RSub(RMul(RInt(c), departure), arrival), sla_tempo_medio), ROne)

(***************************************************************************)
(* C12.  Flag 0 with a threshold > 0.  Every step of the increase loop     *)
(* raises capacity by one, and while its test holds the capacity is below  *)
(* the ceiling (lambda + 1 / threshold) / mu and below the capacity up to  *)
(* which the model follows the walk.  Every step of the decrease loop      *)
(* lowers capacity by one and never below 0.  So each loop makes finitely  *)
(* many steps.                                                             *)
(***************************************************************************)
C12_MeanWaitSearchEnds ==
    /\ [][(NaFase(0, "aumenta") /\ pc' = "aumenta") => capacity' = capacity + 1]_vars
    /\ [][(NaFase(0, "diminui") /\ pc' \in {"diminui", "erro"})
              => (capacity' = capacity - 1 /\ capacity' >= 0)]_vars
    /\ []((NaFase(0, "aumenta")
             /\ TesteAumenta(0, metrica, SLA_TEMPO_MEDIO, SLA_PER))
            => /\ AbaixoDoTeto(arrival_rate, departure_rate, capacity,
                               SLA_TEMPO_MEDIO)
               /\ capacity < MaxCap)
    /\ []((NaFase(0, "diminui")
             /\ TesteDiminui(0, metrica, SLA_TEMPO_MEDIO, SLA_PER))
            => capacity >= 1)

\* The increase loop has raised the capacity above the stabilized one, and
\* the decrease loop that followed has stepped down from there and ended.
C12_Witness ==
    /\ NaFase(0, "compara")
    /\ planilha[i].PDV_ATUAIS >= 1
    /\ resultado_2 = SaidasEm(planilha[i], capacity + 1)
    /\ capacity + 1 > Estabilizado(planilha[i], planilha[i].PDV_ATUAIS)

Patologica(f, r) ==
    IF f = 2 THEN RLeq(ROne, r.SLA_PER_) ELSE r.SLA_TEMPO <= 0

C14_PathologicalRowDoesNotAbort ==
    (bloco = "otim" /\ i <= Len(planilha) /\ Patologica(flag, planilha[i]))
        => erro = "nenhum"


(***************************************************************************)
(* C16.  What a search reports for a row depends on that row alone: the    *)
(* metrics reported for row k are those of row k's own queue (its DEMANDA, *)
(* TMA and SLA_TEMPO_MAX) at some stable capacity, whatever rows were      *)
(* processed before it.                                                    *)
(***************************************************************************)
C16_RowResultFromOwnInputs ==
    \A k \in 1..Len(OtimSaida) :
        \E c \in 1..(MaxCap + 1) :
            /\ Estavel(planilha[k], c)
            /\ OtimSaida[k] = LinhaSaida("otim", flag, SaidasEm(planilha[k], c))


(***************************************************************************)
(* C15.  MMcQueue(arrival, departure, capacity) raises exactly when        *)
(* capacity * departure <= arrival; when it returns, capacity * departure  *)
(* > arrival and the p0 of the object is a number strictly between 0       *)
(* and 1.                                                                  *)
(***************************************************************************)
C15_ConstructorGuard ==
    /\ (bloco = "classe" /\ pc = "erro")
           => Unstable(arrival_rate, departure_rate, capacity)
    /\ (bloco = "classe" /\ pc = "feito")
           => /\ ~Unstable(arrival_rate, departure_rate, capacity)
              /\ fila # FilaNaN
              /\ RLt(RZero, fila._p0) /\ RLt(fila._p0, ROne)


(***************************************************************************)
(* C17.  Probability mass: for every queue the constructor returns, the    *)
(* sum of getPk(k) over k = 0 .. capacity - 1 plus getQueueProb() is 1.    *)
(***************************************************************************)
\* getPk(0) + ... + getPk(n).
RECURSIVE SomaPk(_, _)
SomaPk(self, n) ==
    IF n < 0 THEN RZero ELSE RAdd(SomaPk(self, n - 1), getPk(self, n))

C17_MassConservation ==
    (bloco = "classe" /\ pc = "feito")
        => /\ fila # FilaNaN
           /\ RAdd(SomaPk(fila, fila._capacity - 1), getQueueProb(fila)) = ROne

(***************************************************************************)
(* C18.  Little's law: for every queue the constructor returns,            *)
(* getAvgPackets() equals getAvgPacketInSystem().                          *)
(***************************************************************************)
C18_LittlesLaw ==
    (bloco = "classe" /\ pc = "feito")
        => /\ fila # FilaNaN
           /\ getAvgPackets(fila) = getAvgPacketInSystem(fila)

(***************************************************************************)
(* C19.  Monotonicity: for every queue the constructor returns,            *)
(* getAvgQueueTime() is at most getAvgQueueTime() of the queue with the    *)
(* same rates at every smaller stable capacity.                            *)
(***************************************************************************)
C19_WaitNonIncreasing ==
    (bloco = "classe" /\ pc = "feito")
        => /\ fila # FilaNaN
           /\ \A c \in 1..(capacity - 1) :
                  ~Unstable(arrival_rate, departure_rate, c)
                      => RLeq(getAvgQueueTime(fila),
                              getAvgQueueTime(MMcQueue(arrival_rate, departure_rate, c)))

(***************************************************************************)
(* C20.  M/M/1: the queue built with capacity 1 (so 0 < arrival <          *)
(* departure) has getQueueProb() equal to the utilization arrival /        *)
(* departure.                                                              *)
(***************************************************************************)
C20_SingleServerWaitProb ==
    (bloco = "classe" /\ pc = "feito" /\ capacity = 1)
        => getQueueProb(fila) = RDiv(arrival_rate, departure_rate)

\* A single-server queue has been built with arrival / departure = 2 / 3.
C20_Witness ==
    /\ bloco = "classe" /\ pc = "feito" /\ capacity = 1
    /\ arrival_rate = RInt(2) /\ departure_rate = RInt(3)
    /\ fila = MMcQueue(arrival_rate, departure_rate, 1)


(***************************************************************************)
(* C21.  getPorbWhenQueueTimeLargerThan(queueTime): a call with            *)
(* queueTime < 0 ends in an error and returns no value; a call with        *)
(* queueTime >= 0 on a queue whose fields are numbers returns              *)
(* (pc / (1 - rou)) * exp(-c * mu * (1 - rou) * queueTime), a value        *)
(* between 0 and 1.                                                        *)
(***************************************************************************)
C21_NegativeTimeRejected ==
    (bloco = "classe" /\ pc = "chamado")
        => IF RLt(SLA_TEMPO_MAX, RZero)
           THEN erro # "nenhum" /\ metrica = NoNum
           ELSE fila # FilaNaN
                    => /\ metrica =
                              RMul(RDiv(fila._pc, RSub(ROne, fila._rou)),
                                   ExpR(RNeg(RMul(RMul(RMul(RInt(fila._capacity),
                                                            fila._departure),
                                                       RSub(ROne, fila._rou)),
                                                  SLA_TEMPO_MAX))))
                       /\ RLeq(RZero, metrica) /\ RLeq(metrica, ROne)


(***************************************************************************)
(* C22.  For a row whose PDV_ATUAIS, PDV_MAX and PDV_TESTE are equal, the  *)
(* tables of the three descriptive passes hold the same values in every    *)
(* shared column: required capacity, stability flag and the metrics.       *)
(***************************************************************************)
C22_PassesAgree ==
    dict_3 # NoObj
        => \A k \in 1..Len(planilha) :
               LET r == planilha[k]
               IN  (r.PDV_ATUAIS = r.PDV_MAX /\ r.PDV_MAX = r.PDV_TESTE)
                       => /\ dict_1.CAPACITY[k] = dict_2.CAPACITY[k]
                          /\ dict_2.CAPACITY[k] = dict_3.CAPACITY[k]
                          /\ dict_1.MUDANCA[k] = dict_2.MUDANCA[k]
                          /\ dict_2.MUDANCA[k] = dict_3.MUDANCA[k]
                          /\ dict_1.saida[k] = dict_2.saida[k]
                          /\ dict_2.saida[k] = dict_3.saida[k]


(***************************************************************************)
(* C23.  A row with starting capacity >= 1 for which one server is stable  *)
(* and meets the SLA: the search of that row raises nothing, and the       *)
(* capacity it reports is 1.                                               *)
(***************************************************************************)
UmServidorBasta(f, r) ==
    r.PDV_ATUAIS >= 1 /\ Estavel(r, 1) /\ AtendeSLA(f, r, 1)

C23_DecreaseReachesOne ==
    \A k \in 1..Len(planilha) :
        UmServidorBasta(flag, planilha[k])
            => /\ (bloco = "otim" /\ i = k) => erro = "nenhum"
               /\ k <= Len(OtimCapacity) => OtimCapacity[k] = 1


(***************************************************************************)
(* C24.  Flags 0 and 1: for every capacity c reported for a row, c + 1     *)
(* meets the threshold, and either c violates the threshold or c - 1 is    *)
(* unstable.                                                               *)
(***************************************************************************)
C24_ReportedWithinOne ==
    \A k \in 1..Len(OtimCapacity) :
        LET r == planilha[k]
            c == OtimCapacity[k]
        IN  flag \in {0, 1}
                => /\ AtendeSLA(flag, r, c + 1)
                   /\ ~AtendeSLA(flag, r, c) \/ ~Estavel(r, c - 1)


(***************************************************************************)
(* C25.  queue_outputs divides by the server count of the queue it is      *)
(* given.  Wherever a search can call it, the variable capacity is the     *)
(* server count of fila; the tuple in resultado holds the sizes of fila    *)
(* and those sizes divided by fila's server count; the tuple in            *)
(* resultado_2 holds the sizes of a queue of one of the rows read so far   *)
(* divided by that queue's own server count; and the row a descriptive     *)
(* pass has just appended holds fila's size divided by fila's server       *)
(* count.                                                                  *)
(***************************************************************************)
\* The sizes in the tuple res are those of the queue q, divided by q's own
\* server count.
Normalizado(res, q) ==
    /\ res.tamanho = getAvgPackets(q)
    /\ res.tamanho_por_pdv = RDiv(getAvgPackets(q), RInt(q._capacity))
    /\ res.tamanho_asterisco = getAvgQueuePacket_Given(q)
    /\ res.tamanho_asterisco_pdv =
           RDiv(getAvgQueuePacket_Given(q), RInt(q._capacity))

C25_OutputsUseOwnCapacity ==
    /\ (bloco = "otim" /\ pc \in {"aumenta", "diminui", "compara"}
          /\ fila # FilaNaN)
           => /\ fila._capacity = capacity
              /\ Normalizado(resultado, fila)
    /\ (bloco = "otim" /\ resultado_2 # NoObj)
           => \E k \in 1..i : \E c \in 1..MaxCap :
                  /\ Estavel(planilha[k], c)
                  /\ Normalizado(resultado_2,
                                 MMcQueue(Lambda(planilha[k]), Mu(planilha[k]), c))
    /\ (bloco \in Descritivo /\ pc = "ler" /\ Len(saida) >= 1)
           => /\ fila._capacity = capacity
              /\ saida[Len(saida)].TAMANHO_POR_PDV =
                     RDiv(getAvgPackets(fila), RInt(fila._capacity))
              /\ saida[Len(saida)].TAMANHO_ASTERISCO_PDV =
                     RDiv(getAvgQueuePacket_Given(fila), RInt(fila._capacity))

\* The decrease loop has stepped down at least once and the guard has then
\* put the capacity back: resultado_2 is the tuple of the call made before
\* the last decrement.
C25_Witness ==
    /\ bloco = "otim" /\ pc = "compara" /\ fila # FilaNaN
    /\ capacity < planilha[i].PDV_ATUAIS
    /\ ~Estavel(planilha[i], capacity - 1)
    /\ resultado_2 = SaidasEm(planilha[i], capacity)


(***************************************************************************)
(* C26.  For every queue the constructor returns with numbers in its       *)
(* fields, getAvgQueueTime() equals getQueueProb() times                   *)
(* getAvgQueueTime_Given().                                                *)
(***************************************************************************)
C26_WaitConsistency ==
    (bloco = "classe" /\ pc = "feito" /\ fila # FilaNaN)
        => getAvgQueueTime(fila)
               = RMul(getQueueProb(fila), getAvgQueueTime_Given(fila))

=============================================================================
